---- MODULE Spec2Model ----
\* Model of the ToDo API (FastAPI backend) and its Telegram bot: the task
\* store and its handlers, the bot's session registries, and the reminder
\* worker with its poll cycle.  Instants are whole hours on the UTC timeline.
EXTENDS Integers, Sequences, FiniteSets, TLC

VARIABLES
    now,                 \* wall clock, hours since the epoch of the run (UTC)
    serverTz,            \* UTC offset (hours) of the backend's local time zone
    SESSIONS,            \* bot.py SESSIONS: insertion-ordered dict chat_id -> UserSession
    TIMEZONE_OFFSETS,    \* bot.py TIMEZONE_OFFSETS: dict chat_id -> offset
    LAST_REMINDER_SENT,  \* bot.py LAST_REMINDER_SENT: dict chat_id -> instant
    tasks,               \* rows of the tasks table: id -> row
    nextId,              \* next value of the table's id sequence
    pc,                  \* where reminders_worker is suspended
    cycleNow,            \* the worker's local `now`
    queue,               \* the part of list(SESSIONS.items()) the for loop has not finished
    important_tasks,     \* the worker's local `important_tasks` while it sends
    lastDelivered,       \* history: chat_id -> cycle instant of the latest reminder delivered
    failed,              \* history: chats whose deadline fetch raised in the running cycle
    aborted,             \* history: an exception ended the cycle before the one now starting
    fsm_state,           \* aiogram FSM storage: chat_id -> state of the dialog, or None
    fsm_data,            \* aiogram FSM storage: chat_id -> dict of the answers collected
    tasks_db,            \* the in-memory store: list of task dicts
    assigned             \* history: every id the in-memory store has held

vars == <<now, serverTz, SESSIONS, TIMEZONE_OFFSETS, LAST_REMINDER_SENT, tasks, nextId,
          pc, cycleNow, queue, important_tasks, lastDelivered, failed, aborted,
          fsm_state, fsm_data, tasks_db, assigned>>

botVars == <<SESSIONS, TIMEZONE_OFFSETS, LAST_REMINDER_SENT>>
storeVars == <<tasks, nextId>>
workerVars == <<pc, cycleNow, queue, important_tasks, lastDelivered, failed, aborted>>
dialogVars == <<fsm_state, fsm_data>>
memoryVars == <<tasks_db, assigned>>

\* ---------------------------------------------------------------- bounds
MaxNow == 48
TickHours == 12
SchedMaxTasks == 1
StoreMaxNow == 12
StoreMaxTasks == 2
TasksMaxNow == 24
TasksMaxTasks == 1
TimingMaxTasks == 2
MemoryMaxTasks == 4
AccessMaxTasks == 2
NewTaskMaxTasks == 2
EditMaxTasks == 1

Chats == {1, 2}
TitleJob == <<"j", "o", "b">>
TitleFix == <<"f", "i", "x">>
Users == {"ann", "bob"}
Admins == {"root"}
ServerOffsets == {0, 12}

\* ------------------------------------------------------- optional values
None == <<>>
Some(x) == <<x>>
Val(o) == o[1]

\* ----------------------------------------------------------- time, dates
HoursPerDay == 24

\* datetime.date(): the calendar day of an instant
Date(t) == t \div HoursPerDay

\* ------------------------------------------------------------- utils.py
UrgentDays == 3

\* an urgency test that leaves out the third day
is_urgent_strict(deadline_at, t) ==
    IF deadline_at = None THEN FALSE
    ELSE Date(Val(deadline_at)) - Date(t) < UrgentDays

is_urgent_from_deadline(deadline_at, t) ==
    IF deadline_at = None THEN FALSE
    ELSE Date(Val(deadline_at)) - Date(t) <= UrgentDays

\* a table with the labels of the two mixed cells exchanged
calc_quadrant_swapped(is_important, deadline_at, t) ==
    LET urgent == is_urgent_from_deadline(deadline_at, t)
    IN  IF is_important /\ urgent THEN "Q1"
        ELSE IF is_important /\ ~urgent THEN "Q3"
        ELSE IF ~is_important /\ urgent THEN "Q2"
        ELSE "Q4"

calc_quadrant(is_important, deadline_at, t) ==
    LET urgent == is_urgent_from_deadline(deadline_at, t)
    IN  IF is_important /\ urgent THEN "Q1"
        ELSE IF is_important /\ ~urgent THEN "Q2"
        ELSE IF ~is_important /\ urgent THEN "Q3"
        ELSE "Q4"

\* ----------------------------------------------------------- schemas.py
\* whole days of elapsed time instead of the difference of calendar dates
days_left_elapsed(deadline_at, t) ==
    IF deadline_at = None THEN None
    ELSE Some((Val(deadline_at) - t) \div HoursPerDay)

\* TaskResponse.days_left, read at instant t
days_left(deadline_at, t) ==
    IF deadline_at = None THEN None
    ELSE Some(Date(Val(deadline_at)) - Date(t))

\* the fields of TaskResponse built from a row at instant t
TaskResponse(id, row, t) ==
    [id |-> id,
     title |-> row.title,
     description |-> row.description,
     is_important |-> row.is_important,
     deadline_at |-> row.deadline_at,
     quadrant |-> row.quadrant,
     completed |-> row.completed,
     days_left |-> days_left(row.deadline_at, t),
     is_urgent |-> is_urgent_from_deadline(row.deadline_at, t)]

\* ------------------------------------------- backend/routers/tasks.py
IsAdmin(u) == u \in Admins

\* an ownership check that lets everyone through
MayAccessAnyone(u, id) == TRUE

\* the ownership check shared by get, update, complete and delete
MayAccess(u, id) == IsAdmin(u) \/ tasks[id].user_id = u

\* title: min_length=3, max_length=100; text is a sequence of characters
TitleMinLength == 3
TitleMaxLength == 100
ValidTitle(title) == TitleMinLength <= Len(title) /\ Len(title) <= TitleMaxLength

\* the body of a POST passes validation
ValidCreate(title, description) == ValidTitle(title)

\* the body of a PUT passes validation
ValidUpdate(update_data) ==
    "title" \in DOMAIN update_data => ValidTitle(update_data.title)

\* the table after db.add(new_task) and commit
Inserted(u, title, description, is_important, deadline_at) ==
    [i \in DOMAIN tasks \cup {nextId} |->
        IF i = nextId
        THEN [user_id |-> u,
              title |-> title,
              description |-> description,
              is_important |-> is_important,
              quadrant |-> calc_quadrant(is_important, deadline_at, now),
              deadline_at |-> deadline_at,
              completed |-> FALSE,
              completed_at |-> None]
        ELSE tasks[i]]

\* POST /tasks/; a body that fails validation (422) creates nothing
create_task(u, title, description, is_important, deadline_at) ==
    /\ IF ValidCreate(title, description)
       THEN /\ tasks' = Inserted(u, title, description, is_important, deadline_at)
            /\ nextId' = nextId + 1
       ELSE UNCHANGED <<tasks, nextId>>
    /\ UNCHANGED <<now, serverTz, dialogVars, memoryVars, botVars, workerVars>>

\* model_dump(exclude_unset=True) followed by setattr for every field given
ApplyUpdate(row, update_data) ==
    [f \in DOMAIN row |-> IF f \in DOMAIN update_data THEN update_data[f] ELSE row[f]]

\* an update that reclassifies whatever fields it was given
UpdatedRowAlways(row, update_data, t) ==
    LET set == ApplyUpdate(row, update_data)
    IN  [set EXCEPT !.quadrant = calc_quadrant(set.is_important, set.deadline_at, t)]

\* an update that reclassifies only when the deadline is given
UpdatedRowDeadlineOnly(row, update_data, t) ==
    LET set == ApplyUpdate(row, update_data)
    IN  IF "deadline_at" \in DOMAIN update_data
        THEN [set EXCEPT !.quadrant = calc_quadrant(set.is_important, set.deadline_at, t)]
        ELSE set

UpdatedRow(row, update_data, t) ==
    LET set == ApplyUpdate(row, update_data)
    IN  IF "is_important" \in DOMAIN update_data \/ "deadline_at" \in DOMAIN update_data
        THEN [set EXCEPT !.quadrant = calc_quadrant(set.is_important, set.deadline_at, t)]
        ELSE set

\* the PUT is answered 200: neither 422 nor 404 nor 403
UpdateAccepted(u, id, update_data) ==
    ValidUpdate(update_data) /\ id \in DOMAIN tasks /\ MayAccess(u, id)

\* PUT /tasks/{task_id}; 422, 404 and 403 leave the store as it is
update_task(u, id, update_data) ==
    /\ IF UpdateAccepted(u, id, update_data)
       THEN tasks' = [tasks EXCEPT ![id] = UpdatedRow(tasks[id], update_data, now)]
       ELSE tasks' = tasks
    /\ UNCHANGED <<now, serverTz, dialogVars, memoryVars, nextId, botVars, workerVars>>

CompletedRow(row, t) == [row EXCEPT !.completed = TRUE, !.completed_at = Some(t)]

\* PATCH /tasks/{task_id}/complete
complete_task(u, id) ==
    /\ IF id \in DOMAIN tasks /\ MayAccess(u, id)
       THEN tasks' = [tasks EXCEPT ![id] = CompletedRow(tasks[id], now)]
       ELSE tasks' = tasks
    /\ UNCHANGED <<now, serverTz, dialogVars, memoryVars, nextId, botVars, workerVars>>

\* DELETE /tasks/{task_id}
delete_task(u, id) ==
    /\ IF id \in DOMAIN tasks /\ MayAccess(u, id)
       THEN tasks' = [i \in DOMAIN tasks \ {id} |-> tasks[i]]
       ELSE tasks' = tasks
    /\ UNCHANGED <<now, serverTz, dialogVars, memoryVars, nextId, botVars, workerVars>>

\* ---- the read handlers; a response is its status code and the ids of the
\* ---- rows it returns (a select without ORDER BY has no order to model)
Response(status, ids) == [status |-> status, tasks |-> ids]

UpperChars == <<"A", "B", "C", "D", "E", "F", "G", "H", "I", "J", "K", "L", "M",
                "N", "O", "P", "Q", "R", "S", "T", "U", "V", "W", "X", "Y", "Z">>
LowerChars == <<"a", "b", "c", "d", "e", "f", "g", "h", "i", "j", "k", "l", "m",
                "n", "o", "p", "q", "r", "s", "t", "u", "v", "w", "x", "y", "z">>

\* str.lower() and the case folding of ILIKE, over the Latin letters
lower(text) ==
    [k \in 1..Len(text) |->
        IF \E n \in 1..Len(UpperChars) : UpperChars[n] = text[k]
        THEN LowerChars[CHOOSE n \in 1..Len(UpperChars) : UpperChars[n] = text[k]]
        ELSE text[k]]

RECURSIVE Like(_, _)
\* SQL LIKE: % matches any run of characters, _ any one character
Like(text, pattern) ==
    IF pattern = <<>> THEN text = <<>>
    ELSE IF Head(pattern) = "%"
         THEN Like(text, Tail(pattern)) \/ (text # <<>> /\ Like(Tail(text), pattern))
    ELSE IF text = <<>> THEN FALSE
    ELSE (Head(pattern) = "_" \/ Head(pattern) = Head(text)) /\ Like(Tail(text), Tail(pattern))

\* column.ilike(keyword) on a nullable column: NULL is not true
ilike(column, keyword) == column # None /\ Like(lower(Val(column)), lower(keyword))

\* the rows a select sees: all of them for an admin, else those with
\* Task.user_id == current_user.id
OwnIds(u) == IF IsAdmin(u) THEN DOMAIN tasks ELSE {i \in DOMAIN tasks : tasks[i].user_id = u}

\* GET /tasks
get_all_tasks(u) == Response(200, OwnIds(u))

Quadrants == {"Q1", "Q2", "Q3", "Q4"}

\* GET /tasks/quadrant/{quadrant}
get_tasks_by_quadrant(u, quadrant) ==
    IF quadrant \notin Quadrants
    THEN Response(400, {})
    ELSE Response(200, {i \in OwnIds(u) : tasks[i].quadrant = quadrant})

\* GET /tasks/status/{status}
get_tasks_by_status(u, status) ==
    IF status \notin {"completed", "pending"}
    THEN Response(400, {})
    ELSE Response(200, {i \in OwnIds(u) : tasks[i].completed = (status = "completed")})

SearchMinLength == 2

\* GET /tasks/search?q=
search_tasks(u, q) ==
    IF Len(q) < SearchMinLength
    THEN Response(422, {})
    ELSE LET keyword == <<"%">> \o lower(q) \o <<"%">>
             found == {i \in OwnIds(u) : \/ ilike(Some(tasks[i].title), keyword)
                                         \/ ilike(tasks[i].description, keyword)}
         IN  IF found = {} THEN Response(404, {}) ELSE Response(200, found)

\* GET /tasks/today: func.date(Task.deadline_at) == datetime.utcnow().date()
get_tasks_due_today(u) ==
    LET found == {i \in OwnIds(u) : /\ tasks[i].deadline_at # None
                                    /\ Date(Val(tasks[i].deadline_at)) = Date(now)}
    IN  IF found = {} THEN Response(404, {}) ELSE Response(200, found)

\* the lookup and the two checks that open get, update, complete and delete
task_status(u, id) ==
    IF id \notin DOMAIN tasks THEN 404
    ELSE IF ~MayAccess(u, id) THEN 403
    ELSE 200

\* GET /tasks/{task_id}
get_task_by_id(u, id) ==
    IF task_status(u, id) = 200 THEN Response(200, {id}) ELSE Response(task_status(u, id), {})

\* ------------------------------------------------- routers/stats.py
\* a query without the completed filter
AllIds == DOMAIN tasks

\* select(Task).where(Task.completed.is_(False))
PendingIds == {i \in DOMAIN tasks : ~tasks[i].completed}

\* today = datetime.now().date(): the backend's local calendar day
ServerToday == Date(now + serverTz)

DeadlineEntry(i) ==
    [task |-> i,
     title |-> tasks[i].title,
     days_left |-> Date(Val(tasks[i].deadline_at)) - ServerToday]

\* GET /stats/deadlines: the handler takes no current user and filters by none
get_pending_deadlines(u) ==
    LET ids == [i \in 1..(nextId - 1) |-> i]
        kept == SelectSeq(ids, LAMBDA i : i \in PendingIds /\ tasks[i].deadline_at # None)
    IN  [k \in 1..Len(kept) |-> DeadlineEntry(kept[k])]

\* SQL comparisons: a comparison with NULL is not true
SqlLe(a, b) == a # None /\ b # None /\ Val(a) <= Val(b)
SqlGt(a, b) == a # None /\ b # None /\ Val(a) > Val(b)

\* a late bucket that counts every completed row
completed_late_all == {i \in DOMAIN tasks : tasks[i].completed}

\* the rows the four CASE expressions of GET /stats/timing count
completed_on_time ==
    {i \in DOMAIN tasks : tasks[i].completed /\ SqlLe(tasks[i].completed_at, tasks[i].deadline_at)}

completed_late ==
    {i \in DOMAIN tasks : tasks[i].completed /\ SqlGt(tasks[i].completed_at, tasks[i].deadline_at)}

on_plan_pending ==
    {i \in DOMAIN tasks :
        ~tasks[i].completed /\ tasks[i].deadline_at # None /\ SqlGt(tasks[i].deadline_at, Some(now))}

\* an overdue bucket that leaves out the instant of the deadline itself
overdue_pending_strict ==
    {i \in DOMAIN tasks :
        ~tasks[i].completed /\ tasks[i].deadline_at # None
            /\ tasks[i].deadline_at # Some(now) /\ SqlLe(tasks[i].deadline_at, Some(now))}

overdue_pending ==
    {i \in DOMAIN tasks :
        ~tasks[i].completed /\ tasks[i].deadline_at # None /\ SqlLe(tasks[i].deadline_at, Some(now))}

\* GET /stats/timing
get_deadline_stats ==
    [completed_on_time |-> Cardinality(completed_on_time),
     completed_late |-> Cardinality(completed_late),
     on_plan_pending |-> Cardinality(on_plan_pending),
     overtime_pending |-> Cardinality(overdue_pending)]

\* ------------------------------------------------------------ bot.py
DefaultOffset == 3
MinOffset == -12
MaxOffset == 14

\* the default offset whatever the chat stored
_get_utc_offset_hours_default(c) == DefaultOffset

_get_utc_offset_hours(c) ==
    IF c \in DOMAIN TIMEZONE_OFFSETS THEN TIMEZONE_OFFSETS[c] ELSE DefaultOffset

\* a datetime: its wall-clock reading in hours and its tzinfo
Naive(t) == [wall |-> t, tzinfo |-> None]

_local_to_utc(c, dt_local) ==
    LET offset == _get_utc_offset_hours(c)
        dt_utc == [dt_local EXCEPT !.wall = dt_local.wall - offset]
    IN  [dt_utc EXCEPT !.tzinfo = Some("utc")]

\* a conversion back that subtracts the offset once more
_utc_to_local_minus(c, dt_utc) ==
    IF dt_utc = None THEN None
    ELSE LET dt == IF Val(dt_utc).tzinfo = None
                   THEN [Val(dt_utc) EXCEPT !.tzinfo = Some("utc")]
                   ELSE Val(dt_utc)
             offset == _get_utc_offset_hours(c)
         IN  Some([dt EXCEPT !.wall = dt.wall - offset])

\* dt_utc is Optional: None stays None
_utc_to_local(c, dt_utc) ==
    IF dt_utc = None THEN None
    ELSE LET dt == IF Val(dt_utc).tzinfo = None
                   THEN [Val(dt_utc) EXCEPT !.tzinfo = Some("utc")]
                   ELSE Val(dt_utc)
             offset == _get_utc_offset_hours(c)
         IN  Some([dt EXCEPT !.wall = dt.wall + offset])

\* dict assignment d[k] = v
DictSet(d, k, v) == [x \in DOMAIN d \cup {k} |-> IF x = k THEN v ELSE d[x]]

\* text is a sequence of characters
DigitChars == <<"0", "1", "2", "3", "4", "5", "6", "7", "8", "9">>
IsDigit(ch) == \E k \in 1..10 : DigitChars[k] = ch
DigitValue(ch) == (CHOOSE k \in 1..10 : DigitChars[k] = ch) - 1

RECURSIVE strip(_)
\* str.strip()
strip(text) ==
    IF text = <<>> THEN <<>>
    ELSE IF Head(text) = " " THEN strip(Tail(text))
    ELSE IF text[Len(text)] = " " THEN strip(SubSeq(text, 1, Len(text) - 1))
    ELSE text

IsPrefix(pat, text) == Len(pat) <= Len(text) /\ SubSeq(text, 1, Len(pat)) = pat

RECURSIVE replace(_, _)
\* str.replace(pat, "")
replace(text, pat) ==
    IF text = <<>> THEN <<>>
    ELSE IF IsPrefix(pat, text) THEN replace(SubSeq(text, Len(pat) + 1, Len(text)), pat)
    ELSE <<Head(text)>> \o replace(Tail(text), pat)

RECURSIVE DigitsValue(_)
DigitsValue(digits) ==
    IF digits = <<>> THEN 0
    ELSE 10 * DigitsValue(SubSeq(digits, 1, Len(digits) - 1)) + DigitValue(digits[Len(digits)])

\* int(text): Some(n), or None for ValueError
int(text) ==
    LET body == strip(text)
        signed == body # <<>> /\ Head(body) \in {"+", "-"}
        digits == IF signed THEN Tail(body) ELSE body
    IN  IF digits = <<>> \/ \E k \in 1..Len(digits) : ~IsDigit(digits[k])
        THEN None
        ELSE Some(IF signed /\ Head(body) = "-" THEN 0 - DigitsValue(digits)
                  ELSE DigitsValue(digits))

\* a range check that leaves out the upper end
cmd_timezone_exclusive(c, offset) ==
    /\ TIMEZONE_OFFSETS' =
          IF ~(MinOffset <= offset /\ offset < MaxOffset)
          THEN TIMEZONE_OFFSETS
          ELSE DictSet(TIMEZONE_OFFSETS, c, offset)
    /\ UNCHANGED <<now, serverTz, dialogVars, memoryVars, SESSIONS, LAST_REMINDER_SENT, storeVars, workerVars>>

\* /timezone <offset>, after int() parsed the argument
cmd_timezone(c, offset) ==
    /\ TIMEZONE_OFFSETS' =
          IF ~(MinOffset <= offset /\ offset <= MaxOffset)
          THEN TIMEZONE_OFFSETS
          ELSE DictSet(TIMEZONE_OFFSETS, c, offset)
    /\ UNCHANGED <<now, serverTz, dialogVars, memoryVars, SESSIONS, LAST_REMINDER_SENT, storeVars, workerVars>>

\* the offset read from the text after /timezone; <<>> when there is no text,
\* None when the command answers with its usage or format message
timezone_offset(arg) ==
    IF arg = <<>>
    THEN None
    ELSE LET raw_offset == replace(replace(strip(arg), <<"U", "T", "C">>), <<"u", "t", "c">>)
         IN  int(raw_offset)

\* /timezone with the text after the command
cmd_timezone_text(c, arg) ==
    IF timezone_offset(arg) = None
    THEN UNCHANGED vars
    ELSE cmd_timezone(c, Val(timezone_offset(arg)))

SessionChats == {SESSIONS[k].chat : k \in 1..Len(SESSIONS)}

\* SESSIONS[chat_id] = UserSession(...): an existing key keeps its place,
\* a new key goes last
SessionsSet(c, u) ==
    IF c \in SessionChats
    THEN [k \in 1..Len(SESSIONS) |->
             IF SESSIONS[k].chat = c THEN [chat |-> c, user |-> u] ELSE SESSIONS[k]]
    ELSE Append(SESSIONS, [chat |-> c, user |-> u])

\* the last step of the /login dialog; a failed login changes nothing
login_password(c, u, ok) ==
    /\ SESSIONS' = IF ok THEN SessionsSet(c, u) ELSE SESSIONS
    /\ UNCHANGED <<now, serverTz, dialogVars, memoryVars, TIMEZONE_OFFSETS, LAST_REMINDER_SENT, storeVars, workerVars>>

\* a /logout that also forgets the chat's reminder instant
cmd_logout_forgets(c) ==
    /\ SESSIONS' = IF c \in SessionChats
                   THEN SelectSeq(SESSIONS, LAMBDA s : s.chat # c)
                   ELSE SESSIONS
    /\ LAST_REMINDER_SENT' =
          [x \in DOMAIN LAST_REMINDER_SENT \ {c} |-> LAST_REMINDER_SENT[x]]
    /\ UNCHANGED <<now, serverTz, dialogVars, memoryVars, TIMEZONE_OFFSETS, storeVars, workerVars>>

\* /logout
cmd_logout(c) ==
    /\ SESSIONS' = IF c \in SessionChats
                   THEN SelectSeq(SESSIONS, LAMBDA s : s.chat # c)
                   ELSE SESSIONS
    /\ UNCHANGED <<now, serverTz, dialogVars, memoryVars, TIMEZONE_OFFSETS, LAST_REMINDER_SENT, storeVars, workerVars>>

\* ------------------------------------------------- the FSM dialogs
RECURSIVE Split(_, _)
\* the pieces of text between the occurrences of the character sep
Split(text, sep) ==
    IF \A k \in 1..Len(text) : text[k] # sep
    THEN <<text>>
    ELSE LET first == CHOOSE k \in 1..Len(text) :
                          text[k] = sep /\ \A j \in 1..(k - 1) : text[j] # sep
         IN  <<SubSeq(text, 1, first - 1)>> \o Split(SubSeq(text, first + 1, Len(text)), sep)

\* a run of lo..hi digits
IsNumber(text, lo, hi) == Len(text) \in lo..hi /\ \A k \in 1..Len(text) : IsDigit(text[k])

IsLeap(y) == (y % 4 = 0 /\ y % 100 # 0) \/ y % 400 = 0

DaysInMonth(y, m) ==
    IF m = 2 THEN (IF IsLeap(y) THEN 29 ELSE 28)
    ELSE IF m \in {4, 6, 9, 11} THEN 30
    ELSE 31

\* the days from 1970-01-01, hour 0 of the model, to the date
DaysFromCivil(y, m, d) ==
    LET yy == IF m <= 2 THEN y - 1 ELSE y
        era == yy \div 400
        yoe == yy - era * 400
        mp == IF m > 2 THEN m - 3 ELSE m + 9
        doy == (153 * mp + 2) \div 5 + d - 1
        doe == yoe * 365 + yoe \div 4 - yoe \div 100 + doy
    IN  era * 146097 + doe - 719468

\* datetime.strptime(text, "%Y-%m-%d %H:%M") of a stripped text: Some(naive
\* datetime), or None for ValueError.  The minutes are checked and, the
\* model's instants being whole hours, not kept.
strptime(text) ==
    LET halves == SelectSeq(Split(text, " "), LAMBDA p : p # <<>>)
        date == IF Len(halves) = 2 THEN Split(halves[1], "-") ELSE <<>>
        time == IF Len(halves) = 2 THEN Split(halves[2], ":") ELSE <<>>
        shaped == /\ Len(date) = 3
                  /\ Len(time) = 2
                  /\ IsNumber(date[1], 4, 4)
                  /\ IsNumber(date[2], 1, 2)
                  /\ IsNumber(date[3], 1, 2)
                  /\ IsNumber(time[1], 1, 2)
                  /\ IsNumber(time[2], 1, 2)
        Y == DigitsValue(date[1])
        m == DigitsValue(date[2])
        d == DigitsValue(date[3])
        H == DigitsValue(time[1])
        M == DigitsValue(time[2])
    IN  IF ~shaped THEN None
        ELSE IF ~(Y >= 1 /\ m \in 1..12 /\ d >= 1 /\ d <= DaysInMonth(Y, m)
                  /\ H \in 0..23 /\ M \in 0..59)
        THEN None
        ELSE Some(Naive(DaysFromCivil(Y, m, d) * HoursPerDay + H))

Dash == <<"-">>

\* the deadline step of both dialogs: the text is '-', or a date that
\* parses, or neither; deadline_iso is None or the UTC instant
deadline_parses(text) == strip(text) = Dash \/ strptime(strip(text)) # None

deadline_iso(c, text) ==
    IF strip(text) = Dash
    THEN None
    ELSE Some(_local_to_utc(c, Val(strptime(strip(text)))).wall)

\* SESSIONS.get(chat_id): None or the session
session_of(c) ==
    IF c \in SessionChats
    THEN Some(SESSIONS[CHOOSE k \in 1..Len(SESSIONS) : SESSIONS[k].chat = c])
    ELSE None

InState(c, name) == fsm_state[c] = Some(name)

\* state.set_state(name)
set_state(c, name) == fsm_state' = [fsm_state EXCEPT ![c] = Some(name)]

\* state.update_data(key=value)
update_data(c, key, value) == fsm_data' = [fsm_data EXCEPT ![c] = DictSet(fsm_data[c], key, value)]

\* state.clear()
clear(c) ==
    /\ fsm_state' = [fsm_state EXCEPT ![c] = None]
    /\ fsm_data' = [fsm_data EXCEPT ![c] = <<>>]

NewTaskStates ==
    {"NewTaskStates:title", "NewTaskStates:description", "NewTaskStates:is_important",
     "NewTaskStates:deadline"}
EditStates ==
    {"EditTaskStates:task_id", "EditTaskStates:title", "EditTaskStates:description",
     "EditTaskStates:deadline"}

\* /newtask, in any state of the chat: without a session only an answer
cmd_new_task(c) ==
    /\ IF session_of(c) = None
       THEN UNCHANGED fsm_state
       ELSE set_state(c, "NewTaskStates:title")
    /\ UNCHANGED <<now, serverTz, botVars, storeVars, workerVars, memoryVars, fsm_data>>

new_task_title(c, text) ==
    /\ InState(c, "NewTaskStates:title")
    /\ update_data(c, "title", Some(strip(text)))
    /\ set_state(c, "NewTaskStates:description")
    /\ UNCHANGED <<now, serverTz, botVars, storeVars, workerVars, memoryVars>>

new_task_description(c, text) ==
    /\ InState(c, "NewTaskStates:description")
    /\ update_data(c, "description", IF strip(text) = Dash THEN None ELSE Some(strip(text)))
    /\ set_state(c, "NewTaskStates:is_important")
    /\ UNCHANGED <<now, serverTz, botVars, storeVars, workerVars, memoryVars>>

\* ("да", "yes", "y", "д"), the Cyrillic answers in transliteration
YesAnswers == {<<"d", "a">>, <<"y", "e", "s">>, <<"y">>, <<"d">>}

new_task_is_important(c, text) ==
    /\ InState(c, "NewTaskStates:is_important")
    /\ update_data(c, "is_important", lower(strip(text)) \in YesAnswers)
    /\ set_state(c, "NewTaskStates:deadline")
    /\ UNCHANGED <<now, serverTz, botVars, storeVars, workerVars, memoryVars>>

\* the deadline step of /newtask.  api_ok: the POST reaches the backend and
\* is answered; answered: message.answer returns (it raises otherwise, and
\* the handler ends where it is).  state.clear() follows the answer on every
\* path but the format error, which returns after its answer.
new_task_deadline(c, text, api_ok, answered) ==
    /\ InState(c, "NewTaskStates:deadline")
    /\ IF session_of(c) = None
       THEN /\ IF answered THEN clear(c) ELSE UNCHANGED dialogVars
            /\ UNCHANGED storeVars
       ELSE IF ~deadline_parses(text)
       THEN UNCHANGED <<dialogVars, storeVars>>
       ELSE LET data == fsm_data[c]
                user == Val(session_of(c)).user
                created == api_ok /\ ValidCreate(Val(data.title), data.description)
            IN  /\ IF created
                   THEN /\ tasks' = Inserted(user, Val(data.title), data.description,
                                             data.is_important, deadline_iso(c, text))
                        /\ nextId' = nextId + 1
                   ELSE UNCHANGED storeVars
                /\ IF answered THEN clear(c) ELSE UNCHANGED dialogVars
    /\ UNCHANGED <<now, serverTz, botVars, workerVars, memoryVars>>

\* /edittask, in the states whose handlers come after it in the router
cmd_edit_task(c) ==
    /\ fsm_state[c] = None \/ \E s \in EditStates : InState(c, s)
    /\ IF session_of(c) = None
       THEN UNCHANGED fsm_state
       ELSE set_state(c, "EditTaskStates:task_id")
    /\ UNCHANGED <<now, serverTz, botVars, storeVars, workerVars, memoryVars, fsm_data>>

edit_task_id(c, text) ==
    /\ InState(c, "EditTaskStates:task_id")
    /\ IF int(strip(text)) = None
       THEN UNCHANGED dialogVars
       ELSE /\ update_data(c, "task_id", Val(int(strip(text))))
            /\ set_state(c, "EditTaskStates:title")
    /\ UNCHANGED <<now, serverTz, botVars, storeVars, workerVars, memoryVars>>

edit_task_title(c, text) ==
    /\ InState(c, "EditTaskStates:title")
    /\ update_data(c, "title", IF strip(text) = Dash THEN None ELSE Some(strip(text)))
    /\ set_state(c, "EditTaskStates:description")
    /\ UNCHANGED <<now, serverTz, botVars, storeVars, workerVars, memoryVars>>

edit_task_description(c, text) ==
    /\ InState(c, "EditTaskStates:description")
    /\ update_data(c, "description", IF strip(text) = Dash THEN None ELSE Some(strip(text)))
    /\ set_state(c, "EditTaskStates:deadline")
    /\ UNCHANGED <<now, serverTz, botVars, storeVars, workerVars, memoryVars>>

\* a request body that always carries deadline_at
update_payload_deadline(title, description, is_important, deadline_at_iso) ==
    LET keys == {"deadline_at"}
                \cup (IF title # None THEN {"title"} ELSE {})
                \cup (IF description # None THEN {"description"} ELSE {})
                \cup (IF is_important # None THEN {"is_important"} ELSE {})
    IN  [k \in keys |->
            CASE k = "title" -> Val(title)
              [] k = "description" -> description
              [] k = "is_important" -> Val(is_important)
              [] k = "deadline_at" -> deadline_at_iso]

\* api_client.update_task: the body holds the arguments that are not None.
\* A row keeps its title as the text and its description and deadline_at
\* as optional values.
update_payload(title, description, is_important, deadline_at_iso) ==
    LET keys == (IF title # None THEN {"title"} ELSE {})
                \cup (IF description # None THEN {"description"} ELSE {})
                \cup (IF is_important # None THEN {"is_important"} ELSE {})
                \cup (IF deadline_at_iso # None THEN {"deadline_at"} ELSE {})
    IN  [k \in keys |->
            CASE k = "title" -> Val(title)
              [] k = "description" -> description
              [] k = "is_important" -> Val(is_important)
              [] k = "deadline_at" -> deadline_at_iso]

\* the body the deadline step of /edittask sends
edit_payload(c, text) ==
    update_payload(fsm_data[c].title, fsm_data[c].description, None, deadline_iso(c, text))

\* the deadline step of /edittask; api_ok and answered as in new_task_deadline
edit_task_deadline(c, text, api_ok, answered) ==
    /\ InState(c, "EditTaskStates:deadline")
    /\ IF session_of(c) = None
       THEN /\ IF answered THEN clear(c) ELSE UNCHANGED dialogVars
            /\ UNCHANGED storeVars
       ELSE IF ~deadline_parses(text)
       THEN UNCHANGED <<dialogVars, storeVars>>
       ELSE LET task_id == fsm_data[c].task_id
                user == Val(session_of(c)).user
                payload == edit_payload(c, text)
            IN  /\ IF api_ok /\ UpdateAccepted(user, task_id, payload)
                   THEN tasks' = [tasks EXCEPT ![task_id] = UpdatedRow(tasks[task_id], payload, now)]
                   ELSE tasks' = tasks
                /\ UNCHANGED nextId
                /\ IF answered THEN clear(c) ELSE UNCHANGED dialogVars
    /\ UNCHANGED <<now, serverTz, botVars, workerVars, memoryVars>>

\* ------------------------------------------------- reminders_worker
Cooldown == 24
WindowLo == -1
WindowHi == 1

\* a cooldown test that also skips at exactly 24 hours
CoolingInclusive(c, t) ==
    /\ c \in DOMAIN LAST_REMINDER_SENT
    /\ t - LAST_REMINDER_SENT[c] <= Cooldown

\* `if last_sent:` and `time_since_last < timedelta(hours=24)`
Cooling(c, t) ==
    /\ c \in DOMAIN LAST_REMINDER_SENT
    /\ t - LAST_REMINDER_SENT[c] < Cooldown

\* the window of the worker's docstring: 0-1 days before the deadline
InWindowDocstring(d) == 0 <= d /\ d <= WindowHi

\* `-1 <= t["days_left"] <= 1`
InReminderWindow(d) == WindowLo <= d /\ d <= WindowHi

FilterImportant(deadlines) == SelectSeq(deadlines, LAMBDA e : InReminderWindow(e.days_left))

\* the worker is suspended in asyncio.sleep, get_deadlines or send_message
AtAwait == pc \in {"sleep", "fetch", "send"}

\* asyncio.sleep returns: now = datetime.now(timezone.utc), list(SESSIONS.items())
WorkerWake ==
    /\ pc = "sleep"
    /\ pc' = "loop"
    /\ cycleNow' = now
    /\ queue' = SESSIONS
    /\ UNCHANGED <<now, serverTz, dialogVars, memoryVars, botVars, storeVars, important_tasks, lastDelivered, failed>>
    /\ UNCHANGED aborted

\* the for loop is exhausted: back to asyncio.sleep(300)
WorkerCycleEnd ==
    /\ pc = "loop"
    /\ queue = <<>>
    /\ pc' = "sleep"
    /\ failed' = {}
    /\ UNCHANGED <<now, serverTz, dialogVars, memoryVars, botVars, storeVars, cycleNow, queue, important_tasks,
                   lastDelivered>>
    /\ aborted' = FALSE

\* less than 24 hours since the last reminder: continue
WorkerSkip ==
    /\ pc = "loop"
    /\ queue # <<>>
    /\ Cooling(Head(queue).chat, cycleNow)
    /\ queue' = Tail(queue)
    /\ UNCHANGED <<now, serverTz, dialogVars, memoryVars, botVars, storeVars, pc, cycleNow, important_tasks,
                   lastDelivered, failed>>
    /\ aborted' = FALSE

\* await api_client.get_deadlines(token=session.access_token)
WorkerFetch ==
    /\ pc = "loop"
    /\ queue # <<>>
    /\ ~Cooling(Head(queue).chat, cycleNow)
    /\ pc' = "fetch"
    /\ UNCHANGED <<now, serverTz, dialogVars, memoryVars, botVars, storeVars, cycleNow, queue, important_tasks,
                   lastDelivered, failed>>
    /\ aborted' = FALSE

\* a fetch error that ends the cycle instead of continuing
FetchFailAborts ==
    /\ pc = "fetch"
    /\ pc' = "sleep"
    /\ queue' = <<>>
    /\ failed' = failed \cup {Head(queue).chat}
    /\ UNCHANGED <<now, serverTz, dialogVars, memoryVars, botVars, storeVars, cycleNow, important_tasks, lastDelivered>>
    /\ aborted' = TRUE

\* a fetch error after which the worker also drops the session
FetchFailLogsOut ==
    /\ pc = "fetch"
    /\ pc' = "loop"
    /\ queue' = Tail(queue)
    /\ failed' = failed \cup {Head(queue).chat}
    /\ SESSIONS' = SelectSeq(SESSIONS, LAMBDA s : s.chat # Head(queue).chat)
    /\ UNCHANGED <<now, serverTz, dialogVars, memoryVars, TIMEZONE_OFFSETS, LAST_REMINDER_SENT, storeVars, cycleNow,
                   important_tasks, lastDelivered>>
    /\ UNCHANGED aborted

\* get_deadlines raised: the inner except continues with the next session
FetchFail ==
    /\ pc = "fetch"
    /\ pc' = "loop"
    /\ queue' = Tail(queue)
    /\ failed' = failed \cup {Head(queue).chat}
    /\ UNCHANGED <<now, serverTz, dialogVars, memoryVars, botVars, storeVars, cycleNow, important_tasks, lastDelivered>>
    /\ UNCHANGED aborted

\* get_deadlines returned; filter, and either continue or start sending
FetchOk ==
    /\ pc = "fetch"
    /\ LET found == FilterImportant(get_pending_deadlines(Head(queue).user))
       IN  IF found = <<>>
           THEN /\ pc' = "loop"
                /\ queue' = Tail(queue)
                /\ important_tasks' = <<>>
           ELSE /\ pc' = "send"
                /\ queue' = queue
                /\ important_tasks' = found
    /\ UNCHANGED <<now, serverTz, dialogVars, memoryVars, botVars, storeVars, cycleNow, lastDelivered, failed>>
    /\ UNCHANGED aborted

\* What resp.json() can hand to the worker: a list of JSON values.  A value
\* is given by its Python type and, for int and bool (a subclass of int in
\* Python, True being 1), its number; an entry is a JSON object with or
\* without the key days_left, or a value that is no object.
Json(type, num) == [type |-> type, num |-> num]
JsonObject(value) == [kind |-> "object", days_left |-> value]
NotAnObject == [kind |-> "other", days_left |-> Json("missing", 0)]

\* isinstance(t.get("days_left"), int)
isinstance_int(v) == v.type \in {"int", "bool"}

\* the condition of the list comprehension for an entry that is an object
KeepsEntry(t) == isinstance_int(t.days_left) /\ InReminderWindow(t.days_left.num)

\* get_deadlines returned the list `deadlines`: t.get raises AttributeError
\* on an entry that is no object, outside the inner try, and the outer except
\* ends the cycle; otherwise filter, and either continue or start sending
FetchReturns(deadlines) ==
    /\ pc = "fetch"
    /\ IF \E k \in 1..Len(deadlines) : deadlines[k].kind # "object"
       THEN /\ pc' = "sleep"
            /\ queue' = <<>>
            /\ important_tasks' = <<>>
            /\ failed' = {}
            /\ aborted' = TRUE
       ELSE /\ LET found == SelectSeq(deadlines, KeepsEntry)
               IN  IF found = <<>>
                   THEN /\ pc' = "loop"
                        /\ queue' = Tail(queue)
                        /\ important_tasks' = <<>>
                   ELSE /\ pc' = "send"
                        /\ queue' = queue
                        /\ important_tasks' = found
            /\ UNCHANGED <<failed, aborted>>
    /\ UNCHANGED <<now, serverTz, dialogVars, memoryVars, botVars, storeVars, cycleNow, lastDelivered>>

\* a send that stores the clock read after the send instead of the cycle's now
SendOkClock ==
    /\ pc = "send"
    /\ LET c == Head(queue).chat
       IN  /\ lastDelivered' = DictSet(lastDelivered, c, cycleNow)
           /\ LAST_REMINDER_SENT' = DictSet(LAST_REMINDER_SENT, c, now)
    /\ pc' = "loop"
    /\ queue' = Tail(queue)
    /\ important_tasks' = <<>>
    /\ UNCHANGED <<now, serverTz, dialogVars, memoryVars, SESSIONS, TIMEZONE_OFFSETS, storeVars, cycleNow, failed>>
    /\ UNCHANGED aborted

\* send_message returned: LAST_REMINDER_SENT[chat_id] = now
SendOk ==
    /\ pc = "send"
    /\ LET c == Head(queue).chat
       IN  /\ lastDelivered' = DictSet(lastDelivered, c, cycleNow)
           /\ LAST_REMINDER_SENT' = DictSet(LAST_REMINDER_SENT, c, cycleNow)
    /\ pc' = "loop"
    /\ queue' = Tail(queue)
    /\ important_tasks' = <<>>
    /\ UNCHANGED <<now, serverTz, dialogVars, memoryVars, SESSIONS, TIMEZONE_OFFSETS, storeVars, cycleNow, failed>>
    /\ UNCHANGED aborted

\* a worker that records the reminder instant before the send is known to succeed
SendFailRecords ==
    /\ pc = "send"
    /\ pc' = "sleep"
    /\ queue' = <<>>
    /\ important_tasks' = <<>>
    /\ failed' = {}
    /\ LAST_REMINDER_SENT' = DictSet(LAST_REMINDER_SENT, Head(queue).chat, cycleNow)
    /\ UNCHANGED <<now, serverTz, dialogVars, memoryVars, SESSIONS, TIMEZONE_OFFSETS, storeVars, cycleNow, lastDelivered>>
    /\ aborted' = TRUE

\* a worker without the outer try/except: the exception ends the task
SendFailStops ==
    /\ pc = "send"
    /\ pc' = "stopped"
    /\ queue' = <<>>
    /\ important_tasks' = <<>>
    /\ failed' = {}
    /\ UNCHANGED <<now, serverTz, dialogVars, memoryVars, botVars, storeVars, cycleNow, lastDelivered>>
    /\ aborted' = TRUE

\* send_message raised: the outer except ends the cycle, then asyncio.sleep(300)
SendFail ==
    /\ pc = "send"
    /\ pc' = "sleep"
    /\ queue' = <<>>
    /\ important_tasks' = <<>>
    /\ failed' = {}
    /\ UNCHANGED <<now, serverTz, dialogVars, memoryVars, botVars, storeVars, cycleNow, lastDelivered>>
    /\ aborted' = TRUE

\* main returns and asyncio.run cancels the worker task: CancelledError is
\* raised at the await the worker is suspended in, and `except Exception`
\* does not catch it
Shutdown ==
    /\ AtAwait
    /\ pc' = "cancelled"
    /\ UNCHANGED <<now, serverTz, dialogVars, memoryVars, botVars, storeVars, cycleNow, queue, important_tasks,
                   lastDelivered, failed, aborted>>

\* ------------------------------------- routers/tasks.py, the in-memory store
\* tasks_db as the module is loaded: four tasks with the ids 1..4 (the titles
\* and descriptions stand for the texts of the source)
InitialTasks ==
    <<[id |-> 1, title |-> TitleJob, description |-> Some(TitleJob), is_important |-> TRUE,
       is_urgent |-> TRUE, quadrant |-> "Q1", completed |-> FALSE, created_at |-> 0],
      [id |-> 2, title |-> TitleJob, description |-> Some(TitleJob), is_important |-> TRUE,
       is_urgent |-> FALSE, quadrant |-> "Q2", completed |-> FALSE, created_at |-> 0],
      [id |-> 3, title |-> TitleJob, description |-> None, is_important |-> FALSE,
       is_urgent |-> TRUE, quadrant |-> "Q3", completed |-> FALSE, created_at |-> 0],
      [id |-> 4, title |-> TitleJob, description |-> Some(TitleJob), is_important |-> FALSE,
       is_urgent |-> FALSE, quadrant |-> "Q4", completed |-> TRUE, created_at |-> 0]>>

\* the if/elif chain of the in-memory create_task
quadrant_of(is_important, is_urgent) ==
    IF is_important /\ is_urgent THEN "Q1"
    ELSE IF is_important /\ ~is_urgent THEN "Q2"
    ELSE IF ~is_important /\ is_urgent THEN "Q3"
    ELSE "Q4"

\* max(..., default=0)
Max(S) == IF S = {} THEN 0 ELSE CHOOSE x \in S : \A y \in S : y <= x

\* an id taken from the length of the list
new_id_count == Len(tasks_db) + 1

\* new_id = max([t["id"] for t in tasks_db], default=0) + 1
new_id == Max({tasks_db[k].id : k \in 1..Len(tasks_db)}) + 1

\* POST /tasks/ of the in-memory router
create_task_memory(title, description, is_important, is_urgent) ==
    /\ tasks_db' = Append(tasks_db,
                          [id |-> new_id,
                           title |-> title,
                           description |-> description,
                           is_important |-> is_important,
                           is_urgent |-> is_urgent,
                           quadrant |-> quadrant_of(is_important, is_urgent),
                           completed |-> FALSE,
                           created_at |-> now])
    /\ assigned' = assigned \cup {new_id}
    /\ UNCHANGED <<now, serverTz, botVars, storeVars, workerVars, dialogVars>>

\* DELETE /tasks/{task_id} of the in-memory router: the first task with the
\* id is removed; 404 leaves the list as it is
delete_task_memory(task_id) ==
    /\ LET found == {k \in 1..Len(tasks_db) : tasks_db[k].id = task_id}
       IN  IF found = {}
           THEN tasks_db' = tasks_db
           ELSE LET first == CHOOSE k \in found : \A j \in found : k <= j
                IN  tasks_db' = SubSeq(tasks_db, 1, first - 1)
                                \o SubSeq(tasks_db, first + 1, Len(tasks_db))
    /\ UNCHANGED <<now, serverTz, botVars, storeVars, workerVars, dialogVars, assigned>>

\* ------------------------------------------------------------ clock
Tick ==
    /\ now + TickHours <= MaxNow
    /\ now' = now + TickHours
    /\ UNCHANGED <<serverTz, dialogVars, memoryVars, botVars, storeVars, workerVars>>

\* ------------------------------------------------- specifications
Init ==
    /\ now = 0
    /\ serverTz \in ServerOffsets
    /\ SESSIONS = <<>>
    /\ TIMEZONE_OFFSETS = <<>>
    /\ LAST_REMINDER_SENT = <<>>
    /\ tasks = <<>>
    /\ nextId = 1
    /\ pc = "sleep"
    /\ cycleNow = 0
    /\ queue = <<>>
    /\ important_tasks = <<>>
    /\ lastDelivered = <<>>
    /\ failed = {}
    /\ aborted = FALSE
    /\ fsm_state = [c \in Chats |-> None]
    /\ fsm_data = [c \in Chats |-> <<>>]
    /\ tasks_db = InitialTasks
    /\ assigned = {tasks_db[k].id : k \in 1..Len(tasks_db)}

Worker ==
    \/ WorkerWake
    \/ WorkerCycleEnd
    \/ WorkerSkip
    \/ WorkerFetch
    \/ FetchFail
    \/ FetchOk
    \/ SendOk
    \/ SendFail

\* The scheduler with the bot's commands of two chats; the store is driven by
\* create and delete.  Handlers run while the worker is suspended in an await.
SchedDeadlines == {Some(6), Some(84)}
SchedOffsets == {14, 15}
SchedUsers == {"ann"}

SchedHandlers ==
    \/ \E c \in Chats : \E u \in SchedUsers : \E ok \in BOOLEAN : login_password(c, u, ok)
    \/ \E c \in Chats : cmd_logout(c)
    \/ \E c \in Chats : \E h \in SchedOffsets : cmd_timezone(c, h)
    \/ \E u \in SchedUsers : \E d \in SchedDeadlines :
          nextId <= SchedMaxTasks /\ create_task(u, TitleJob, None, TRUE, d)
    \/ \E u \in SchedUsers : \E i \in 1..SchedMaxTasks : delete_task(u, i)

Next ==
    \/ Worker
    \/ (AtAwait /\ SchedHandlers)
    \/ (AtAwait /\ Tick)

Spec == Init /\ [][Next]_vars

\* The scheduler over the whole task API, with one chat.
StoreChats == {1}
StoreUsers == {"ann"}
StoreDeadlines == {None, Some(6), Some(84)}
StoreUpdates == {[completed |-> FALSE], [deadline_at |-> None]}

StoreHandlers(callers) ==
    \/ \E c \in StoreChats : \E u \in callers : \E ok \in BOOLEAN : login_password(c, u, ok)
    \/ \E c \in StoreChats : cmd_logout(c)
    \/ \E u \in callers : \E d \in StoreDeadlines :
          nextId <= StoreMaxTasks /\ create_task(u, TitleJob, None, TRUE, d)
    \/ \E u \in callers : \E i \in 1..StoreMaxTasks : \E upd \in StoreUpdates :
          update_task(u, i, upd)
    \/ \E u \in callers : \E i \in 1..StoreMaxTasks : complete_task(u, i)
    \/ \E u \in callers : \E i \in 1..StoreMaxTasks : delete_task(u, i)

NextStore ==
    \/ Worker
    \/ (AtAwait /\ StoreHandlers(StoreUsers))
    \/ (AtAwait /\ now < StoreMaxNow /\ Tick)

SpecStore == Init /\ [][NextStore]_vars

\* The same with the tasks of two users in the store.
NextOwners ==
    \/ Worker
    \/ (AtAwait /\ StoreHandlers(Users))
    \/ (AtAwait /\ now < StoreMaxNow /\ Tick)

SpecOwners == Init /\ [][NextOwners]_vars

\* The task API alone, the bot not running: one user's requests with every
\* field of TaskCreate and TaskUpdate that the handlers store, over three days.
TaskUsers == {"ann"}
TaskTitles == {TitleJob}
TaskDeadlines == {None, Some(0), Some(84), Some(96)}
TaskUpdates ==
    {[title |-> TitleFix], [completed |-> TRUE], [completed |-> FALSE],
     [is_important |-> TRUE], [is_important |-> FALSE],
     [deadline_at |-> None], [deadline_at |-> Some(96)],
     [title |-> TitleFix, is_important |-> TRUE]}

TaskHandlers ==
    \/ \E u \in TaskUsers : \E title \in TaskTitles : \E imp \in BOOLEAN : \E d \in TaskDeadlines :
          nextId <= TasksMaxTasks /\ create_task(u, title, None, imp, d)
    \/ \E u \in TaskUsers : \E i \in 1..TasksMaxTasks : \E upd \in TaskUpdates :
          update_task(u, i, upd)
    \/ \E u \in TaskUsers : \E i \in 1..TasksMaxTasks : complete_task(u, i)
    \/ \E u \in TaskUsers : \E i \in 1..TasksMaxTasks : delete_task(u, i)

NextTasks ==
    \/ TaskHandlers
    \/ (now < TasksMaxNow /\ Tick)

SpecTasks == Init /\ [][NextTasks]_vars

\* The task API with the requests that move the timing statistics.
TimingDeadlines == {None, Some(12)}
TimingUpdates == {[completed |-> TRUE], [completed |-> FALSE], [deadline_at |-> None]}

TimingHandlers ==
    \/ \E u \in TaskUsers : \E d \in TimingDeadlines :
          nextId <= TimingMaxTasks /\ create_task(u, TitleJob, None, TRUE, d)
    \/ \E u \in TaskUsers : \E i \in 1..TimingMaxTasks : \E upd \in TimingUpdates :
          update_task(u, i, upd)
    \/ \E u \in TaskUsers : \E i \in 1..TimingMaxTasks : complete_task(u, i)

NextTiming ==
    \/ TimingHandlers
    \/ (now < TasksMaxNow /\ Tick)

SpecTiming == Init /\ [][NextTiming]_vars

\* The task API called by two users and an admin.
AccessCallers == Users \cup Admins
AccessTitles == {TitleJob}
AccessDescriptions == {None, Some(TitleFix)}
AccessDeadlines == {Some(6)}
AccessUpdates == {[title |-> TitleFix]}
AccessQuadrants == Quadrants \cup {"Q5"}
AccessStatuses == {"completed", "pending", "done"}
AccessQueries == {<<"J", "O">>, <<"i", "x">>, <<"_", "%">>, <<"o">>, <<"a", "b">>}

AccessHandlers ==
    \/ \E u \in AccessCallers : \E title \in AccessTitles : \E desc \in AccessDescriptions :
       \E d \in AccessDeadlines :
          nextId <= AccessMaxTasks /\ create_task(u, title, desc, TRUE, d)
    \/ \E u \in AccessCallers : \E i \in 1..AccessMaxTasks : \E upd \in AccessUpdates :
          update_task(u, i, upd)
    \/ \E u \in AccessCallers : \E i \in 1..AccessMaxTasks : complete_task(u, i)
    \/ \E u \in AccessCallers : \E i \in 1..AccessMaxTasks : delete_task(u, i)

NextAccess == AccessHandlers

SpecAccess == Init /\ [][NextAccess]_vars

\* The /newtask dialog of one chat, with login and logout.
DialogChats == {1}
DialogUsers == {"ann"}
NewTaskTitles == {<<" ", "j", "o", "b">>, <<"a", "b">>}
NewTaskDescriptions == {Dash, TitleFix}
NewTaskAnswers == {<<"Y", "e", "s">>, <<"n", "o">>}
NewTaskDeadlines ==
    {Dash,
     <<"1", "9", "7", "0", "-", "0", "1", "-", "0", "1", " ", "0", "6", ":", "0", "0">>,
     <<"1", "9", "7", "0", "-", "0", "2", "-", "3", "0", " ", "1", "0", ":", "0", "0">>,
     <<"s", "o", "o", "n">>}

NewTaskHandlers ==
    \/ \E c \in DialogChats : \E u \in DialogUsers : \E ok \in BOOLEAN : login_password(c, u, ok)
    \/ \E c \in DialogChats : cmd_logout(c)
    \/ \E c \in DialogChats : cmd_new_task(c)
    \/ \E c \in DialogChats : \E text \in NewTaskTitles : new_task_title(c, text)
    \/ \E c \in DialogChats : \E text \in NewTaskDescriptions : new_task_description(c, text)
    \/ \E c \in DialogChats : \E text \in NewTaskAnswers : new_task_is_important(c, text)
    \/ \E c \in DialogChats : \E text \in NewTaskDeadlines :
       \E api_ok \in BOOLEAN : \E answered \in BOOLEAN :
          nextId <= NewTaskMaxTasks /\ new_task_deadline(c, text, api_ok, answered)

NextNewTask == NewTaskHandlers

SpecNewTask == Init /\ [][NextNewTask]_vars

\* The /edittask dialog of one chat over tasks created through the API,
\* with login, logout and the clock.
EditCreateDeadlines == {Some(105)}
EditIds == {<<" ", "1">>, <<"2">>, <<"x">>}
EditTitles == {Dash, <<"f", "i", "x", " ">>}
EditDescriptions == {Dash, TitleJob}
EditDeadlines ==
    {<<" ", "-", " ">>,
     <<"1", "9", "7", "0", "-", "0", "1", "-", "0", "6", " ", "1", "2", ":", "0", "0">>,
     <<"1", "9", "7", "0", "-", "1", "-", "6", " ", "1", "2">>}

EditHandlers ==
    \/ \E c \in DialogChats : \E u \in DialogUsers : \E ok \in BOOLEAN : login_password(c, u, ok)
    \/ \E c \in DialogChats : cmd_logout(c)
    \/ \E u \in DialogUsers : \E d \in EditCreateDeadlines :
          nextId <= EditMaxTasks /\ create_task(u, TitleJob, None, TRUE, d)
    \/ \E c \in DialogChats : cmd_edit_task(c)
    \/ \E c \in DialogChats : \E text \in EditIds : edit_task_id(c, text)
    \/ \E c \in DialogChats : \E text \in EditTitles : edit_task_title(c, text)
    \/ \E c \in DialogChats : \E text \in EditDescriptions : edit_task_description(c, text)
    \/ \E c \in DialogChats : \E text \in EditDeadlines :
       \E api_ok \in BOOLEAN : \E answered \in BOOLEAN :
          edit_task_deadline(c, text, api_ok, answered)

NextEdit ==
    \/ EditHandlers
    \/ (now < TasksMaxNow /\ Tick)

SpecEdit == Init /\ [][NextEdit]_vars

\* The in-memory store alone: creates and deletes.
MemoryIds == 1..(MemoryMaxTasks + 1)

MemoryHandlers ==
    \/ \E imp \in BOOLEAN : \E urg \in BOOLEAN :
          Len(tasks_db) < MemoryMaxTasks /\ create_task_memory(TitleJob, None, imp, urg)
    \/ \E i \in MemoryIds : delete_task_memory(i)

NextMemory == MemoryHandlers

SpecMemory == Init /\ [][NextMemory]_vars

\* The bot's session commands alone, the worker not started.
TimezoneArgs ==
    {<<>>,
     <<"+", "3">>,
     <<"-", "1", "2">>,
     <<"-", "1", "3">>,
     <<"1", "4">>,
     <<"1", "5">>,
     <<"U", "T", "C", "+", "0", " ">>,
     <<"3", ".", "5">>,
     <<"a", "b", "c">>}

BotHandlers ==
    \/ \E c \in Chats : \E u \in Users : \E ok \in BOOLEAN : login_password(c, u, ok)
    \/ \E c \in Chats : cmd_logout(c)
    \/ \E c \in Chats : \E arg \in TimezoneArgs : cmd_timezone_text(c, arg)

NextBot == BotHandlers

SpecBot == Init /\ [][NextBot]_vars

\* The scheduler and the bot's commands until the process is shut down.
NextShutdown ==
    \/ Next
    \/ Shutdown

SpecShutdown == Init /\ [][NextShutdown]_vars

\* The scheduler against any backend answer: the fetch returns a list of up
\* to two entries, well formed or not.
WireEntries ==
    {JsonObject(Json("int", 0)), JsonObject(Json("int", 5)), JsonObject(Json("missing", 0)),
     JsonObject(Json("str", 0)), JsonObject(Json("bool", 1)), NotAnObject}
WireResponses ==
    {<<>>} \cup {<<e>> : e \in WireEntries} \cup {<<e, f>> : e \in WireEntries, f \in WireEntries}

WorkerWire ==
    \/ WorkerWake
    \/ WorkerCycleEnd
    \/ WorkerSkip
    \/ WorkerFetch
    \/ FetchFail
    \/ \E deadlines \in WireResponses : FetchReturns(deadlines)
    \/ SendOk
    \/ SendFail

WireHandlers ==
    \/ \E c \in Chats : \E u \in SchedUsers : \E ok \in BOOLEAN : login_password(c, u, ok)
    \/ \E c \in Chats : cmd_logout(c)

NextWire ==
    \/ WorkerWire
    \/ (AtAwait /\ WireHandlers)
    \/ (AtAwait /\ Tick)

SpecWire == Init /\ [][NextWire]_vars

\* The scheduler under the event loop's scheduling: asyncio.sleep, the fetch
\* (httpx timeout) and the send all return or raise, and the worker then runs.
SpecLive == Init /\ [][Next]_vars /\ WF_vars(Worker)

\* ------------------------------------------------------------ claims
\* C1: reminder throttling.  Whenever a reminder is delivered to a chat, the
\* reminder delivered to that chat before it, if there is one, belongs to a
\* cycle whose instant lies at least 24 hours earlier.  Cycle instants never
\* decrease, so any two reminders of one chat are then 24 hours apart, across
\* logout, re-login and timezone commands.
C1_Throttle ==
    [][(pc = "send" /\ pc' = "loop") =>
          LET c == Head(queue).chat
          IN  c \in DOMAIN lastDelivered => cycleNow - lastDelivered[c] >= 24]_vars

\* a second reminder is about to go to a chat reminded exactly 24 hours before
C1_Witness ==
    /\ pc = "send"
    /\ Head(queue).chat \in DOMAIN lastDelivered
    /\ cycleNow - lastDelivered[Head(queue).chat] = 24

\* C3: cooldown skip.  When the loop reaches a session whose last reminder is
\* less than 24 hours before the cycle's now, it moves on to the next session
\* with no fetch, no reminder and no change of the registries; a session with
\* no last reminder, or with 24 hours or more elapsed, gets its deadline fetch.
C3_CooldownSkip ==
    [][(pc = "loop" /\ queue # <<>>) =>
          LET c == Head(queue).chat
          IN  IF c \in DOMAIN LAST_REMINDER_SENT /\ cycleNow - LAST_REMINDER_SENT[c] < 24
              THEN /\ pc' = "loop"
                   /\ queue' = Tail(queue)
                   /\ UNCHANGED <<botVars, storeVars, lastDelivered, important_tasks>>
              ELSE /\ pc' = "fetch"
                   /\ queue' = queue]_vars

\* in one cycle chat 1, reminded 12 hours before, was passed over and chat 2,
\* reminded exactly 24 hours before, has its fetch under way
C3_Witness ==
    /\ pc = "fetch"
    /\ Len(SESSIONS) = 2
    /\ SESSIONS[1].chat = 1
    /\ queue = <<SESSIONS[2]>>
    /\ DOMAIN LAST_REMINDER_SENT = {1, 2}
    /\ cycleNow - LAST_REMINDER_SENT[1] = 12
    /\ cycleNow - LAST_REMINDER_SENT[2] = 24

C5_SendFailureIsolated ==
    [][(pc = "send" /\ pc' # "send" /\ UNCHANGED LAST_REMINDER_SENT /\ Tail(queue) # <<>>)
          => (pc' = "loop" /\ queue' = Tail(queue))]_vars

C7_LastSentFrame ==
    [][LAST_REMINDER_SENT' # LAST_REMINDER_SENT =>
          /\ pc = "send"
          /\ pc' = "loop"
          /\ lastDelivered' # lastDelivered \/ lastDelivered[Head(queue).chat] # cycleNow
          /\ lastDelivered'[Head(queue).chat] = cycleNow
          /\ \A x \in DOMAIN LAST_REMINDER_SENT' :
                IF x = Head(queue).chat
                THEN LAST_REMINDER_SENT'[x] = cycleNow
                ELSE x \in DOMAIN LAST_REMINDER_SENT
                     /\ LAST_REMINDER_SENT'[x] = LAST_REMINDER_SENT[x]]_vars

\* a chat that was reminded and has logged out keeps its reminder instant
C7_Witness ==
    \E c \in DOMAIN LAST_REMINDER_SENT :
        /\ c \notin SessionChats
        /\ c \in DOMAIN TIMEZONE_OFFSETS
        /\ pc = "sleep"

\* C2: per-user scoping.  Every task listed in the reminder built for a
\* session is owned by the user of that session.
C2_OwnTasksOnly ==
    [][(pc = "fetch" /\ pc' = "send") =>
          \A k \in 1..Len(important_tasks') :
              tasks[important_tasks'[k].task].user_id = Head(queue).user]_vars

C10_NeverAfterCompleted ==
    pc = "send" =>
        \A k \in 1..Len(important_tasks) :
            LET i == important_tasks[k].task
            IN  i \in DOMAIN tasks =>
                    ~(tasks[i].completed_at # None /\ Val(tasks[i].completed_at) < cycleNow)

\* C10, amended: every task listed in a reminder was incomplete and had a
\* deadline when the deadlines query of that cycle ran.
C10_PendingWithDeadline ==
    [][(pc = "fetch" /\ pc' = "send") =>
          \A k \in 1..Len(important_tasks') :
              LET i == important_tasks'[k].task
              IN  /\ i \in DOMAIN tasks
                  /\ ~tasks[i].completed
                  /\ tasks[i].deadline_at # None]_vars

\* a reminder is being sent that leaves out a task completed before the cycle
\* began, whose deadline is inside the window
C10_Witness ==
    /\ pc = "send"
    /\ \E i \in DOMAIN tasks :
          /\ tasks[i].completed
          /\ tasks[i].completed_at # None
          /\ Val(tasks[i].completed_at) < cycleNow
          /\ tasks[i].deadline_at # None
          /\ DeadlineEntry(i).days_left \in -1..1
          /\ \A k \in 1..Len(important_tasks) : important_tasks[k].task # i

\* C8: scheduler survival.  Whatever is raised inside a cycle, the worker
\* keeps starting new cycles: the loop is entered again and again, for ever.
C8_Survival == []<>(pc = "loop")

\* a cycle over two sessions has begun after an exception ended the cycle before
C8_Witness ==
    /\ pc = "loop"
    /\ Len(queue) = 2
    /\ aborted

\* C11 as stated: every days_left the deadlines query returns is the UTC date
\* of the deadline minus the UTC date of now, and so is the days_left field of
\* the task's response at the same instant.
C11_DeadlinesInUtc ==
    LET fetched == get_pending_deadlines("ann")
    IN  \A k \in 1..Len(fetched) :
            LET i == fetched[k].task
            IN  /\ fetched[k].days_left = Date(Val(tasks[i].deadline_at)) - Date(now)
                /\ Some(fetched[k].days_left) = TaskResponse(i, tasks[i], now).days_left

\* C12: classification is total and follows the table.  At every instant, for
\* either importance and for no deadline or any deadline from two days back to
\* six days ahead, calc_quadrant yields one of Q1..Q4, the one the table gives
\* for importance and urgency; without a deadline it yields Q2 or Q4.
C12_ClassifyTable ==
    \A imp \in BOOLEAN :
        \A d \in {None} \cup {Some(now + h) : h \in {12 * k : k \in -4..12}} \cup
                 {tasks[i].deadline_at : i \in DOMAIN tasks} :
            LET q == calc_quadrant(imp, d, now)
                urgent == is_urgent_from_deadline(d, now)
            IN  /\ q \in {"Q1", "Q2", "Q3", "Q4"}
                /\ q = "Q1" <=> (imp /\ urgent)
                /\ q = "Q2" <=> (imp /\ ~urgent)
                /\ q = "Q3" <=> (~imp /\ urgent)
                /\ q = "Q4" <=> (~imp /\ ~urgent)
                /\ d = None => q = (IF imp THEN "Q2" ELSE "Q4")

\* a task without a deadline was accepted and stored in Q4
C12_Witness ==
    \E i \in DOMAIN tasks :
        /\ tasks[i].deadline_at = None
        /\ ~tasks[i].is_important
        /\ tasks[i].quadrant = "Q4"
        /\ now > 0

\* C13: urgency threshold.  No deadline is never urgent; a deadline a whole
\* number k of days from now is urgent exactly when k <= 3; the response of a
\* stored task reports is_urgent exactly when its days_left is at most 3; and
\* important due in five days is Q2, important due in one day is Q1, not
\* important due a day ago is Q3.
C13_UrgencyThreshold ==
    /\ ~is_urgent_from_deadline(None, now)
    /\ \A k \in -3..6 :
          is_urgent_from_deadline(Some(now + 24 * k), now) <=> k <= 3
    /\ \A i \in DOMAIN tasks :
          LET r == TaskResponse(i, tasks[i], now)
          IN  r.is_urgent <=> (r.days_left # None /\ Val(r.days_left) <= 3)
    /\ calc_quadrant(TRUE, Some(now + 5 * 24), now) = "Q2"
    /\ calc_quadrant(TRUE, Some(now + 24), now) = "Q1"
    /\ calc_quadrant(FALSE, Some(now - 24), now) = "Q3"

\* a stored important task is exactly three days from its deadline and urgent
C13_Witness ==
    \E i \in DOMAIN tasks :
        /\ tasks[i].deadline_at = Some(now + 3 * 24)
        /\ TaskResponse(i, tasks[i], now).is_urgent
        /\ tasks[i].quadrant = "Q1"

\* C14: days_left is the difference of calendar dates.  For every stored task
\* with a deadline, days_left is the deadline's date minus today's date; it is
\* d when the deadline is exactly d days ahead, -d when exactly d days back,
\* and 0 when the deadline falls on today's date, at whatever hour.
C14_DaysLeftCalendar ==
    \A i \in DOMAIN tasks :
        LET dl == tasks[i].deadline_at
            left == TaskResponse(i, tasks[i], now).days_left
        IN  IF dl = None THEN left = None
            ELSE /\ left # None
                 /\ Val(left) = (Val(dl) \div 24) - (now \div 24)
                 /\ \A d \in 0..5 : Val(dl) = now + 24 * d => Val(left) = d
                 /\ \A d \in 0..5 : Val(dl) = now - 24 * d => Val(left) = 0 - d
                 /\ (Val(dl) \div 24 = now \div 24) => Val(left) = 0
                 /\ is_urgent_from_deadline(dl, now) <=> Val(left) <= 3

\* the deadline of a stored task passed exactly one day ago
C14_Witness ==
    \E i \in DOMAIN tasks :
        /\ tasks[i].deadline_at = Some(now - 24)
        /\ TaskResponse(i, tasks[i], now).days_left = Some(0 - 1)

\* C15 as stated: a request that leaves is_important and deadline_at of a
\* task as they were leaves its stored quadrant as it was.
C15_OnlyOnChange ==
    [][\A i \in DOMAIN tasks \cap DOMAIN tasks' :
          (tasks'[i].is_important = tasks[i].is_important
              /\ tasks'[i].deadline_at = tasks[i].deadline_at)
          => tasks'[i].quadrant = tasks[i].quadrant]_vars

\* C15, amended: a created task, and a task whose is_important or deadline_at
\* a request changed, is stored with the quadrant calc_quadrant gives for its
\* new fields at the time of the request; a request that changes neither
\* leaves the quadrant as it was or, when it is an update that was given
\* is_important or deadline_at, stores the quadrant for the time of that
\* request; no request stores anything else.
C15_Reclassified ==
    [][/\ \A i \in DOMAIN tasks' \ DOMAIN tasks :
             tasks'[i].quadrant =
                 calc_quadrant(tasks'[i].is_important, tasks'[i].deadline_at, now)
       /\ \A i \in DOMAIN tasks \cap DOMAIN tasks' :
             IF tasks'[i].is_important # tasks[i].is_important
                   \/ tasks'[i].deadline_at # tasks[i].deadline_at
             THEN tasks'[i].quadrant =
                      calc_quadrant(tasks'[i].is_important, tasks'[i].deadline_at, now)
             ELSE \/ tasks'[i].quadrant = tasks[i].quadrant
                  \/ /\ \E u \in TaskUsers : \E upd \in TaskUpdates :
                           /\ update_task(u, i, upd)
                           /\ {"is_important", "deadline_at"} \cap DOMAIN upd # {}
                     /\ tasks'[i].quadrant =
                            calc_quadrant(tasks[i].is_important, tasks[i].deadline_at, now)]_vars

\* a task stored in Q2 whose fields would be classified Q1 now: its quadrant
\* is the one of the time of an earlier request
C15_Witness ==
    \E i \in DOMAIN tasks :
        /\ tasks[i].quadrant = "Q2"
        /\ tasks[i].deadline_at = Some(96)
        /\ calc_quadrant(tasks[i].is_important, tasks[i].deadline_at, now) = "Q1"

\* C16: an update given neither is_important nor deadline_at, and the
\* complete operation, leave the stored quadrant of every task unchanged.
C16_QuadrantFrame ==
    [][\A u \in TaskUsers : \A i \in 1..TasksMaxTasks :
          (\/ complete_task(u, i)
           \/ \E upd \in TaskUpdates :
                 /\ {"is_important", "deadline_at"} \cap DOMAIN upd = {}
                 /\ update_task(u, i, upd))
          => /\ DOMAIN tasks' = DOMAIN tasks
             /\ \A j \in DOMAIN tasks : tasks'[j].quadrant = tasks[j].quadrant]_vars

\* a task renamed and completed a day after it was stored in Q2 is still in
\* Q2, though its fields would now be classified Q1
C16_Witness ==
    \E i \in DOMAIN tasks :
        /\ tasks[i].title = TitleFix
        /\ tasks[i].completed
        /\ tasks[i].completed_at = Some(24)
        /\ tasks[i].quadrant = "Q2"
        /\ calc_quadrant(tasks[i].is_important, tasks[i].deadline_at, now) = "Q1"

\* C17 as stated: in the response for any stored task at any time, quadrant
\* is the label the table gives for the is_important and is_urgent of that
\* same response.
C17_ResponseConsistent ==
    \A i \in DOMAIN tasks :
        LET r == TaskResponse(i, tasks[i], now)
        IN  r.quadrant = (IF r.is_important
                          THEN (IF r.is_urgent THEN "Q1" ELSE "Q2")
                          ELSE (IF r.is_urgent THEN "Q3" ELSE "Q4"))

\* C18 as stated: a task is completed exactly when it has a completion instant.
C18_CompletedAtFollowsFlag ==
    \A i \in DOMAIN tasks : tasks[i].completed <=> tasks[i].completed_at # None

\* C19: the timing buckets are disjoint.  At every instant the four sets of
\* counted rows are pairwise disjoint, each count is the size of its set, and
\* the counts add up to at most the number of tasks with a deadline.
C19_BucketsDisjoint ==
    LET stats == get_deadline_stats
        withDeadline == {i \in DOMAIN tasks : tasks[i].deadline_at # None}
        InTime(i) == tasks[i].completed /\ tasks[i].completed_at # None
                         /\ Val(tasks[i].completed_at) <= Val(tasks[i].deadline_at)
        Late(i) == tasks[i].completed /\ tasks[i].completed_at # None
                       /\ Val(tasks[i].completed_at) > Val(tasks[i].deadline_at)
        OnPlan(i) == ~tasks[i].completed /\ Val(tasks[i].deadline_at) > now
        Overdue(i) == ~tasks[i].completed /\ Val(tasks[i].deadline_at) <= now
        Hits(i) == (IF InTime(i) THEN 1 ELSE 0) + (IF Late(i) THEN 1 ELSE 0)
                       + (IF OnPlan(i) THEN 1 ELSE 0) + (IF Overdue(i) THEN 1 ELSE 0)
    IN  /\ \A i \in withDeadline : Hits(i) <= 1
        /\ stats.completed_on_time = Cardinality({i \in withDeadline : InTime(i)})
        /\ stats.completed_late = Cardinality({i \in withDeadline : Late(i)})
        /\ stats.on_plan_pending = Cardinality({i \in withDeadline : OnPlan(i)})
        /\ stats.overtime_pending = Cardinality({i \in withDeadline : Overdue(i)})
        /\ stats.completed_on_time + stats.completed_late + stats.on_plan_pending
               + stats.overtime_pending <= Cardinality(withDeadline)

\* of two tasks with a deadline one was completed late and counts once, the
\* other was marked completed by an update and counts nowhere
C19_Witness ==
    /\ DOMAIN tasks = {1, 2}
    /\ \A i \in {1, 2} : tasks[i].deadline_at # None /\ tasks[i].completed
    /\ get_deadline_stats =
           [completed_on_time |-> 0, completed_late |-> 1,
            on_plan_pending |-> 0, overtime_pending |-> 0]

\* C20 as stated: every task with a deadline is counted in exactly one of the
\* four buckets.
C20_BucketsExhaustive ==
    \A i \in DOMAIN tasks :
        tasks[i].deadline_at # None =>
            Cardinality({b \in {"on_time", "late", "on_plan", "overdue"} :
                \/ b = "on_time" /\ i \in completed_on_time
                \/ b = "late" /\ i \in completed_late
                \/ b = "on_plan" /\ i \in on_plan_pending
                \/ b = "overdue" /\ i \in overdue_pending}) = 1

\* C21: pending buckets.  An incomplete task whose deadline is after now is
\* counted as on plan and not as overdue; one whose deadline is now or before
\* now is counted as overdue and not as on plan; an incomplete task without
\* a deadline is counted in neither; the two counts are the numbers of such
\* tasks.
C21_PendingBuckets ==
    LET pending == {i \in DOMAIN tasks : ~tasks[i].completed}
        ahead == {i \in pending : tasks[i].deadline_at # None /\ Val(tasks[i].deadline_at) > now}
        due == {i \in pending : tasks[i].deadline_at # None /\ Val(tasks[i].deadline_at) <= now}
    IN  /\ \A i \in ahead : i \in on_plan_pending /\ i \notin overdue_pending
        /\ \A i \in due : i \in overdue_pending /\ i \notin on_plan_pending
        /\ \A i \in pending :
              tasks[i].deadline_at = None => i \notin on_plan_pending \cup overdue_pending
        /\ get_deadline_stats.on_plan_pending = Cardinality(ahead)
        /\ get_deadline_stats.overtime_pending = Cardinality(due)

\* an incomplete task whose deadline is this very instant is counted as
\* overdue, next to an incomplete task without a deadline that is not counted
C21_Witness ==
    /\ DOMAIN tasks = {1, 2}
    /\ \A i \in {1, 2} : ~tasks[i].completed
    /\ \E i \in {1, 2} : tasks[i].deadline_at = Some(now)
    /\ \E i \in {1, 2} : tasks[i].deadline_at = None
    /\ get_deadline_stats.overtime_pending = 1
    /\ get_deadline_stats.on_plan_pending = 0

\* C22 as stated: a completed task without a deadline is counted as completed
\* on time and not as completed late.
C22_NoDeadlineOnTime ==
    \A i \in DOMAIN tasks :
        (tasks[i].completed /\ tasks[i].deadline_at = None)
        => (i \in completed_on_time /\ i \notin completed_late)

\* C23: timezone round trip.  For every chat, with its stored or default
\* offset, and every local wall-clock time t, converting t to UTC and back
\* gives the wall-clock value t; the UTC value is t minus the offset and
\* carries the UTC zone; no time converts to no time.
C23_RoundTrip ==
    \A c \in Chats :
        /\ _utc_to_local(c, None) = None
        /\ \A t \in -30..60 :
              LET offset == IF c \in DOMAIN TIMEZONE_OFFSETS THEN TIMEZONE_OFFSETS[c] ELSE 3
                  utc == _local_to_utc(c, [wall |-> t, tzinfo |-> None])
                  back == _utc_to_local(c, Some(utc))
              IN  /\ utc.wall = t - offset
                  /\ utc.tzinfo = Some("utc")
                  /\ back # None
                  /\ Val(back).wall = t
                  /\ offset \in -12..14

\* chat 1 converts with a stored offset of 14 hours, chat 2 with the default
C23_Witness ==
    /\ DOMAIN TIMEZONE_OFFSETS = {1}
    /\ TIMEZONE_OFFSETS[1] = 14
    /\ _local_to_utc(1, Naive(6)).wall = 0 - 8
    /\ _local_to_utc(2, Naive(6)).wall = 3

\* C24: the timezone command.  The text after the command is read as the
\* integer it writes, and as none for text that is no integer or is missing.
\* In every state a command leaves and for every chat, the command with an integer from -12
\* to 14 (both ends included) stores that offset for the chat, over any value
\* stored before, and changes nothing else; with 15, -13 or any integer
\* outside the range, with text that is no integer, or with no argument, it
\* changes nothing at all.
C24_SetOffset ==
    [][LET Hours(arg) == CASE arg = <<"+", "3">> -> Some(3)
                           [] arg = <<"-", "1", "2">> -> Some(0 - 12)
                           [] arg = <<"-", "1", "3">> -> Some(0 - 13)
                           [] arg = <<"1", "4">> -> Some(14)
                           [] arg = <<"1", "5">> -> Some(15)
                           [] arg = <<"U", "T", "C", "+", "0", " ">> -> Some(0)
                           [] OTHER -> None
           Stored(c, n) == [x \in DOMAIN TIMEZONE_OFFSETS \cup {c} |->
                               IF x = c THEN n ELSE TIMEZONE_OFFSETS[x]]
       IN  /\ \A arg \in TimezoneArgs : timezone_offset(arg) = Hours(arg)
           /\ \A c \in Chats : \A n \in -14..16 :
                 IF n \in -12..14
                 THEN /\ ENABLED (cmd_timezone(c, n) /\ TIMEZONE_OFFSETS' = Stored(c, n))
                      /\ ~ENABLED (/\ cmd_timezone(c, n)
                                   /\ ~(/\ TIMEZONE_OFFSETS' = Stored(c, n)
                                        /\ UNCHANGED <<now, serverTz, SESSIONS,
                                                       LAST_REMINDER_SENT, storeVars,
                                                       workerVars>>))
                 ELSE ~ENABLED (cmd_timezone(c, n) /\ vars' # vars)
           /\ \A c \in Chats : \A arg \in TimezoneArgs :
                 cmd_timezone_text(c, arg) =>
                     IF Hours(arg) # None /\ Val(Hours(arg)) \in -12..14
                     THEN /\ TIMEZONE_OFFSETS' = Stored(c, Val(Hours(arg)))
                          /\ UNCHANGED <<SESSIONS, LAST_REMINDER_SENT, storeVars, workerVars>>
                     ELSE UNCHANGED vars]_vars

\* both ends of the range are stored: 14 for chat 1, -12 for chat 2
C24_Witness ==
    /\ DOMAIN TIMEZONE_OFFSETS = {1, 2}
    /\ TIMEZONE_OFFSETS[1] = 14
    /\ TIMEZONE_OFFSETS[2] = 0 - 12
    /\ SESSIONS # <<>>

\* C25: effective offset.  After every command the offset in effect for a
\* chat is between -12 and 14; it is 3 while the chat has stored none; a
\* stored offset stays stored, across logout too; and it changes, or comes to
\* be stored, only by an accepted timezone command of that same chat, to the
\* value of that command.
C25_EffectiveOffset ==
    [][\A c \in Chats :
          LET Accepted(arg) == CASE arg = <<"+", "3">> -> Some(3)
                                 [] arg = <<"-", "1", "2">> -> Some(0 - 12)
                                 [] arg = <<"1", "4">> -> Some(14)
                                 [] arg = <<"U", "T", "C", "+", "0", " ">> -> Some(0)
                                 [] OTHER -> None
              before == _get_utc_offset_hours(c)
              after == _get_utc_offset_hours(c)'
          IN  /\ after \in -12..14
              /\ c \notin DOMAIN TIMEZONE_OFFSETS' => after = 3
              /\ c \in DOMAIN TIMEZONE_OFFSETS => c \in DOMAIN TIMEZONE_OFFSETS'
              /\ \A arg \in TimezoneArgs :
                    (Accepted(arg) # None /\ cmd_timezone_text(c, arg))
                    => after = Val(Accepted(arg))
              /\ (after # before \/ (c \in DOMAIN TIMEZONE_OFFSETS' /\ c \notin DOMAIN TIMEZONE_OFFSETS))
                    => \E arg \in TimezoneArgs :
                          /\ Accepted(arg) # None
                          /\ cmd_timezone_text(c, arg)
                          /\ after = Val(Accepted(arg))]_vars

\* chat 1 set -12 and is logged out, chat 2 is logged in and never set one
C25_Witness ==
    /\ DOMAIN TIMEZONE_OFFSETS = {1}
    /\ _get_utc_offset_hours(1) = 0 - 12
    /\ _get_utc_offset_hours(2) = 3
    /\ SessionChats = {2}

\* C26 as stated: reminder liveness.  If from some time on chat 2 stays
\* logged in, an incomplete task with days_left in -1..1 is always there, and
\* neither the deadline fetch nor the send of chat 2 fails, then chat 2 is
\* eventually sent a reminder, whatever fails for other chats.
C26_ReminderLiveness ==
    (/\ <>[](/\ 2 \in SessionChats
             /\ \E i \in DOMAIN tasks :
                   /\ ~tasks[i].completed
                   /\ tasks[i].deadline_at # None
                   /\ DeadlineEntry(i).days_left \in -1..1)
     /\ <>[][~(/\ queue # <<>>
               /\ Head(queue).chat = 2
               /\ \/ pc = "fetch" /\ pc' = "loop" /\ failed' # failed
                  \/ pc = "send" /\ pc' # "send" /\ 2 \notin DOMAIN lastDelivered')]_vars)
    => <>(2 \in DOMAIN lastDelivered)

\* C27 as stated: clean shutdown.  The worker leaves its loop only when the
\* cycle in flight has finished: it is between two cycles, with no session of
\* the cycle left to evaluate and no send under way.
C27_CleanShutdown ==
    [][pc' = "cancelled" => (pc = "sleep" /\ queue = <<>>)]_vars

\* C28: a poll cycle is read-only but for LAST_REMINDER_SENT.  No step of the
\* worker changes a stored task, the id sequence, the sessions or a timezone
\* offset.
C28_CycleReadOnly ==
    [][(workerVars' # workerVars \/ LAST_REMINDER_SENT' # LAST_REMINDER_SENT)
          => UNCHANGED <<tasks, nextId, SESSIONS, TIMEZONE_OFFSETS>>]_vars

\* a cycle has just delivered to the first of two sessions; the store holds a
\* task and a chat has an offset stored
C28_Witness ==
    /\ pc = "loop"
    /\ Len(SESSIONS) = 2
    /\ queue = <<SESSIONS[2]>>
    /\ SESSIONS[1].chat \in DOMAIN lastDelivered
    /\ lastDelivered[SESSIONS[1].chat] = cycleNow
    /\ DOMAIN tasks # {}
    /\ DOMAIN TIMEZONE_OFFSETS # {}

\* C30 as stated: every task listed in a reminder has days_left 0 or 1.
C30_DocstringWindow ==
    pc = "send" =>
        \A k \in 1..Len(important_tasks) : important_tasks[k].days_left \in {0, 1}

\* C29 as stated: malformed entries are skipped.  Whatever list the fetch
\* returns, the reminder is made of exactly the entries that are objects with
\* an integer days_left in -1..1, in the order fetched; the other entries are
\* left out and the cycle goes on: to the send when such entries exist, to
\* the next session when none does.
C29_MalformedSkipped ==
    [][\A deadlines \in WireResponses :
          FetchReturns(deadlines) =>
              LET valid == SelectSeq(deadlines,
                               LAMBDA t : /\ t.kind = "object"
                                          /\ t.days_left.type = "int"
                                          /\ t.days_left.num \in -1..1)
              IN  /\ important_tasks' = valid
                  /\ IF valid # <<>>
                     THEN pc' = "send" /\ queue' = queue
                     ELSE pc' = "loop" /\ queue' = Tail(queue)]_vars

\* C31 as stated: logout stops reminders.  While a chat has no session the
\* worker starts no send to it and does not write its LAST_REMINDER_SENT
\* entry, whatever the worker was doing when /logout ran.
C31_LogoutStopsReminders ==
    [][/\ (pc # "send" /\ pc' = "send") => Head(queue').chat \in SessionChats'
       /\ \A c \in Chats :
             (/\ c \in DOMAIN LAST_REMINDER_SENT'
              /\ \/ c \notin DOMAIN LAST_REMINDER_SENT
                 \/ LAST_REMINDER_SENT'[c] # LAST_REMINDER_SENT[c])
             => c \in SessionChats]_vars

\* C33 as stated: completing is idempotent.  PATCH /tasks/{id}/complete on a
\* task that is completed and has a completion instant leaves that instant,
\* and with it the task's on-time/late bucket, as it was.
C33_CompleteIdempotent ==
    [][\A u \in TaskUsers : \A i \in 1..TimingMaxTasks :
          (/\ complete_task(u, i)
           /\ i \in DOMAIN tasks
           /\ tasks[i].completed
           /\ tasks[i].completed_at # None)
          => /\ tasks'[i].completed_at = tasks[i].completed_at
             /\ (i \in completed_on_time') = (i \in completed_on_time)
             /\ (i \in completed_late') = (i \in completed_late)]_vars

\* C36: in the in-memory store no two stored tasks have the same id, after
\* any sequence of creates and deletes.
C36_UniqueIds ==
    \A j \in 1..Len(tasks_db) : \A k \in 1..Len(tasks_db) :
        j # k => tasks_db[j].id # tasks_db[k].id

\* a store that has seen creates and deletes: a created task is stored next
\* to an initial one, and some id that was assigned is no longer stored
C36_Witness ==
    /\ \E k \in 1..Len(tasks_db) : tasks_db[k].id > Len(InitialTasks)
    /\ \E k \in 1..Len(tasks_db) : tasks_db[k].id <= Len(InitialTasks)
    /\ \E i \in assigned : \A k \in 1..Len(tasks_db) : tasks_db[k].id # i

C32_Ownership ==
    /\ [](\A u \in Users :
            LET own == {i \in DOMAIN tasks : tasks[i].user_id = u}
                lists == {get_all_tasks(u), get_tasks_due_today(u)}
                         \cup {get_tasks_by_quadrant(u, q) : q \in AccessQuadrants}
                         \cup {get_tasks_by_status(u, s) : s \in AccessStatuses}
                         \cup {search_tasks(u, q) : q \in AccessQueries}
            IN  /\ \A r \in lists : r.tasks \subseteq own
                /\ \A i \in own : get_task_by_id(u, i) = Response(200, {i})
                /\ \A i \in DOMAIN tasks \ own :
                      /\ get_task_by_id(u, i) = Response(403, {})
                      /\ task_status(u, i) = 403)
    /\ [][\A u \in Users : \A i \in 1..AccessMaxTasks :
             (\/ \E upd \in AccessUpdates : update_task(u, i, upd)
              \/ complete_task(u, i)
              \/ delete_task(u, i))
             => (tasks' # tasks => i \in DOMAIN tasks /\ tasks[i].user_id = u)]_vars

\* two users' tasks are stored, both found by the same search and the same
\* filters, and one of them has been completed by its owner
C32_Witness ==
    /\ \E i \in DOMAIN tasks : \E j \in DOMAIN tasks :
          /\ tasks[i].user_id = "ann"
          /\ tasks[j].user_id = "bob"
          /\ tasks[i].title = tasks[j].title
          /\ tasks[i].quadrant = tasks[j].quadrant
          /\ tasks[i].completed
          /\ search_tasks("ann", <<"J", "O">>) = Response(200, {i})
          /\ search_tasks("root", <<"J", "O">>) = Response(200, {i, j})

\* C34: the frame of the edit dialog.  When the deadline step of /edittask
\* runs, a field answered with '-' is not in the request body and its stored
\* value stays; a deadline answered with '-' also leaves the stored quadrant;
\* no other task changes.
C34_EditFrame ==
    [][\A c \in DialogChats : \A text \in EditDeadlines :
       \A api_ok \in BOOLEAN : \A answered \in BOOLEAN :
          (edit_task_deadline(c, text, api_ok, answered) /\ deadline_parses(text))
          => LET data == fsm_data[c]
                 body == edit_payload(c, text)
             IN  /\ DOMAIN tasks' = DOMAIN tasks
                 /\ \A i \in DOMAIN tasks : i # data.task_id => tasks'[i] = tasks[i]
                 /\ \A i \in DOMAIN tasks :
                       /\ data.title = None =>
                             "title" \notin DOMAIN body /\ tasks'[i].title = tasks[i].title
                       /\ data.description = None =>
                             /\ "description" \notin DOMAIN body
                             /\ tasks'[i].description = tasks[i].description
                       /\ strip(text) = Dash =>
                             /\ "deadline_at" \notin DOMAIN body
                             /\ tasks'[i].deadline_at = tasks[i].deadline_at
                             /\ tasks'[i].quadrant = tasks[i].quadrant]_vars

\* an edit that answered '-' for the description and the deadline went
\* through a day after the task was created: the title is the new one, the
\* description and the deadline are the old ones, and the stored quadrant is
\* no longer the one the deadline gives today
C34_Witness ==
    /\ fsm_state[1] = None
    /\ \E i \in DOMAIN tasks :
          /\ tasks[i].title = <<"f", "i", "x">>
          /\ tasks[i].description = None
          /\ tasks[i].deadline_at = Some(105)
          /\ tasks[i].quadrant = "Q2"
          /\ calc_quadrant(tasks[i].is_important, tasks[i].deadline_at, now) = "Q1"

\* C35 as stated: the new-task dialog.  The steps follow in the order title,
\* description, importance, deadline, begun by a chat with a session; a task
\* is created only by the deadline step of a chat with a session, from the
\* answers collected; a deadline that does not parse creates nothing and
\* leaves the dialog as it is; after the create call, or when the session is
\* gone, the dialog is cleared.
C35_NewTaskDialog ==
    [][\A c \in DialogChats :
          LET at(s) == fsm_state[c] = Some(s)
              to(s) == fsm_state'[c] = Some(s) /\ ~at(s)
          IN  /\ to("NewTaskStates:title") => c \in SessionChats
              /\ to("NewTaskStates:description") => at("NewTaskStates:title")
              /\ to("NewTaskStates:is_important") => at("NewTaskStates:description")
              /\ to("NewTaskStates:deadline") => at("NewTaskStates:is_important")
              /\ tasks' # tasks =>
                    /\ at("NewTaskStates:deadline")
                    /\ c \in SessionChats
                    /\ DOMAIN tasks' = DOMAIN tasks \cup {nextId}
                    /\ tasks'[nextId].title = Val(fsm_data[c].title)
                    /\ tasks'[nextId].description = fsm_data[c].description
                    /\ tasks'[nextId].is_important = fsm_data[c].is_important
              /\ \A text \in NewTaskDeadlines : \A api_ok \in BOOLEAN : \A answered \in BOOLEAN :
                    new_task_deadline(c, text, api_ok, answered) =>
                        IF c \in SessionChats /\ ~deadline_parses(text)
                        THEN UNCHANGED <<tasks, fsm_state, fsm_data>>
                        ELSE fsm_state'[c] = None /\ fsm_data'[c] = <<>>]_vars

====
